---- MODULE Spec2Model ----
(***************************************************************************)
(* Model of guitar-audio-synth/src/lib.rs: GuitarSynthesizer.              *)
(*                                                                         *)
(* Number representation (f32 in the source, integers here):               *)
(*   current_time, start_time   whole sample periods (1 period =           *)
(*                              1/sample_rate seconds)                     *)
(*   sample_rate                Hz                                         *)
(*   attack/release/duration    milliseconds                               *)
(*   frequency                  1/100 Hz                                   *)
(*   phase, envelope, sine,     1/1000                                     *)
(*   harmonic weights, damping,                                            *)
(*   output samples                                                        *)
(*   amplitude, pluck strength  1/1000000                                  *)
(* Products are truncated towards zero where the source rounds to f32.     *)
(***************************************************************************)
EXTENDS Integers, Sequences, FiniteSets, TLC

VARIABLES
    sample_rate, current_time, active_notes, pluck_strength, string_damping,
    last,       \* the most recent call: operation, arguments, samples written
    silenced,   \* notes cleared by stop_all if no trigger followed it, else -1
    host,       \* the calls the embedding host makes in this run
    calls       \* trigger and parameter calls made so far

vars == <<sample_rate, current_time, active_notes, pluck_strength,
          string_damping, last, silenced, host, calls>>

(***************************************************************************)
(* Bounds of the model.                                                    *)
(***************************************************************************)
MaxTime == 5        \* process is not called past this many sample periods
MaxCalls == 3       \* trigger and parameter calls per run

(***************************************************************************)
(* Program constants.                                                      *)
(***************************************************************************)
NumStrings == 6
DefaultPluck == 800000
DefaultDamping == 995
PluckMin == 0
PluckMax == 1000000
DampingMin == 900
DampingMax == 999
AttackMs == 1
ReleaseMs == 2000
DurationMs == 3000

OPEN_STRING_FREQUENCIES == <<8241, 11000, 14683, 19600, 24694, 32963>>

Harmonics == <<500, 300, 200, 150, 100, 50>>

(***************************************************************************)
(* Inputs.  A run draws its calls from one host: the sample rate given to  *)
(* new, the (string_index, fret) pairs given to play_note, the fret        *)
(* sequences given to play_chord, the values given to set_pluck_strength   *)
(* and set_string_damping, and whether it calls stop_all.  Every host      *)
(* calls process with buffers of every length in BufferLengths.  At a      *)
(* sample rate of 1 Hz the 3.0 s duration of a note is 3 sample periods,   *)
(* so a note is triggered, rendered and removed within MaxTime.            *)
(***************************************************************************)
BufferLengths == {0, 1, 2}

Hosts ==
    { [rate |-> 1, notes |-> {<<0, 0>>, <<0, 7>>, <<5, 0>>}, chords |-> {<< >>},
       plucks |-> {}, dampings |-> {}, stop |-> TRUE],
      [rate |-> 1, notes |-> {<<0, 7>>},
       chords |-> {<<0, -1, -1, -1, -1, -1>>, <<-1, 7>>, <<0, 2, 2, 1, 0, 0>>},
       plucks |-> {}, dampings |-> {}, stop |-> FALSE],
      [rate |-> 1, notes |-> {<<0, 0>>}, chords |-> {<<-1, 7>>},
       plucks |-> {-500000, 500000, 1500000}, dampings |-> {}, stop |-> FALSE],
      [rate |-> 1, notes |-> {<<0, 0>>}, chords |-> {},
       plucks |-> {}, dampings |-> {850, 950, 1200}, stop |-> FALSE],
      [rate |-> 1, notes |-> {<<0, 0>>, <<0, -1>>, <<6, 0>>, <<5, -2>>}, chords |-> {},
       plucks |-> {}, dampings |-> {}, stop |-> FALSE],
      [rate |-> 1, notes |-> {}, chords |-> {<<7, 7, 7, 7, 7, 7>>},
       plucks |-> {1500000}, dampings |-> {}, stop |-> FALSE] }

\* integer division truncating towards zero
Quot(a, b) == IF a >= 0 THEN a \div b ELSE -((-a) \div b)

\* f32::clamp
Clamp(v, lo, hi) == IF v < lo THEN lo ELSE IF v > hi THEN hi ELSE v

RECURSIVE Pow2(_)
Pow2(k) == IF k = 0 THEN 1 ELSE 2 * Pow2(k - 1)

\* 2^(k/12) for k in 0..11, in 1/10000
SemitoneRatio == <<10000, 10595, 11225, 11892, 12599, 13348,
                   14142, 14983, 15874, 16818, 17818, 18877>>

\* 2.0_f32.powf(fret / 12.0), in 1/10000
PowTwelfth(fret) == SemitoneRatio[(fret % 12) + 1] * Pow2(fret \div 12)

CalculateFrequency_NoFretGuard(string_index, fret) ==
    IF string_index >= NumStrings THEN 0
    ELSE IF fret < 0 THEN OPEN_STRING_FREQUENCIES[string_index + 1]
    ELSE (OPEN_STRING_FREQUENCIES[string_index + 1] * PowTwelfth(fret)) \div 10000

CalculateFrequency(string_index, fret) ==
    IF string_index >= NumStrings \/ fret < 0 THEN 0
    ELSE (OPEN_STRING_FREQUENCIES[string_index + 1] * PowTwelfth(fret)) \div 10000

GenerateHarmonics(fundamental) == Harmonics

NewNote_FixedAmplitude(string_index, fret, pluck, now) ==
    [frequency |-> CalculateFrequency(string_index, fret),
     amplitude |-> DefaultPluck,
     phase |-> 0,
     attack_time |-> AttackMs,
     release_time |-> ReleaseMs,
     start_time |-> now,
     duration |-> DurationMs,
     harmonics |-> GenerateHarmonics(CalculateFrequency(string_index, fret)),
     string_index |-> string_index]

\* the GuitarNote literal built by play_note and play_chord
NewNote(string_index, fret, pluck, now) ==
    [frequency |-> CalculateFrequency(string_index, fret),
     amplitude |-> pluck,
     phase |-> 0,
     attack_time |-> AttackMs,
     release_time |-> ReleaseMs,
     start_time |-> now,
     duration |-> DurationMs,
     harmonics |-> GenerateHarmonics(CalculateFrequency(string_index, fret)),
     string_index |-> string_index]

\* active_notes.retain(|n| n.string_index != string_index)
RetainOthers_KeepAll(notes, string_index) == notes

RetainOthers_DropAll(notes, string_index) == << >>

RetainOthers(notes, string_index) ==
    SelectSeq(notes, LAMBDA n : n.string_index # string_index)

PlayNoteNotes(notes, string_index, fret, pluck, now) ==
    Append(RetainOthers(notes, string_index),
           NewNote(string_index, fret, pluck, now))

\* the enumerate() loop of play_chord, from 1-based position i on
RECURSIVE ChordLoop(_, _, _, _, _)
ChordLoop(notes, fret_positions, i, pluck, now) ==
    IF i > Len(fret_positions) THEN notes
    ELSE IF fret_positions[i] >= 0
         THEN ChordLoop(Append(notes, NewNote(i - 1, fret_positions[i], pluck, now)),
                        fret_positions, i + 1, pluck, now)
         ELSE ChordLoop(notes, fret_positions, i + 1, pluck, now)

ClearNotes_KeepLast(notes) ==
    IF notes = << >> THEN << >> ELSE <<notes[Len(notes)]>>

\* active_notes.clear()
ClearNotes(notes) == << >>

PlayChordNotes_Merge(notes, fret_positions, pluck, now) ==
    ChordLoop(notes, fret_positions, 1, pluck, now)

PlayChordNotes(notes, fret_positions, pluck, now) ==
    ChordLoop(ClearNotes(notes), fret_positions, 1, pluck, now)

StringsOf(notes) == {notes[i].string_index : i \in 1..Len(notes)}

HasString(notes, s) == \E i \in 1..Len(notes) : notes[i].string_index = s

\* last before any call; value is the argument of a set_ call or the buffer
\* length of process, removed the number of notes a trigger or stop removed
NoCall == [op |-> "new", string_index |-> 0, fret |-> 0, frets |-> << >>,
           value |-> 0, removed |-> 0, samples |-> << >>]

Init ==
    /\ host \in Hosts
    /\ sample_rate = host.rate
    /\ current_time = 0
    /\ active_notes = << >>
    /\ pluck_strength = DefaultPluck
    /\ string_damping = DefaultDamping
    /\ last = NoCall
    /\ silenced = -1
    /\ calls = 0

PlayNote(string_index, fret) ==
    /\ calls < MaxCalls
    /\ active_notes' = PlayNoteNotes(active_notes, string_index, fret,
                                     pluck_strength, current_time)
    /\ last' = [NoCall EXCEPT !.op = "play_note", !.string_index = string_index,
                              !.fret = fret,
                              !.removed = IF HasString(active_notes, string_index)
                                           THEN 1 ELSE 0]
    /\ silenced' = -1
    /\ calls' = calls + 1
    /\ UNCHANGED <<sample_rate, current_time, pluck_strength, string_damping, host>>

PlayChord(fret_positions) ==
    /\ calls < MaxCalls
    /\ active_notes' = PlayChordNotes(active_notes, fret_positions,
                                      pluck_strength, current_time)
    /\ last' = [NoCall EXCEPT !.op = "play_chord", !.frets = fret_positions,
                              !.removed = Len(active_notes)]
    /\ silenced' = -1
    /\ calls' = calls + 1
    /\ UNCHANGED <<sample_rate, current_time, pluck_strength, string_damping, host>>

StopAll ==
    /\ host.stop
    /\ calls < MaxCalls
    /\ active_notes' = ClearNotes(active_notes)
    /\ last' = [NoCall EXCEPT !.op = "stop_all", !.removed = Len(active_notes)]
    /\ silenced' = Len(active_notes)
    /\ calls' = calls + 1
    /\ UNCHANGED <<sample_rate, current_time, pluck_strength, string_damping, host>>

ClampPluck_NoUpper(strength) == IF strength < PluckMin THEN PluckMin ELSE strength

ClampPluck(strength) == Clamp(strength, PluckMin, PluckMax)

ClampDamping(damping) == Clamp(damping, DampingMin, DampingMax)

SetPluckStrength(strength) ==
    /\ calls < MaxCalls
    /\ pluck_strength' = ClampPluck(strength)
    /\ last' = [NoCall EXCEPT !.op = "set_pluck_strength", !.value = strength]
    /\ calls' = calls + 1
    /\ UNCHANGED <<sample_rate, current_time, active_notes, string_damping, silenced, host>>

SetStringDamping(damping) ==
    /\ calls < MaxCalls
    /\ string_damping' = ClampDamping(damping)
    /\ last' = [NoCall EXCEPT !.op = "set_string_damping", !.value = damping]
    /\ calls' = calls + 1
    /\ UNCHANGED <<sample_rate, current_time, active_notes, pluck_strength, silenced, host>>

\* elapsed seconds between two engine times, in microseconds
Elapsed(now, start_time, rate) == ((now - start_time) * 1000000) \div rate

\* elapsed > duration (elapsed in microseconds, duration in milliseconds)
Expired_AtDuration(elapsed, duration) == elapsed >= duration * 1000

Expired_Late(elapsed, duration) == elapsed > (duration + 1000) * 1000

Expired(elapsed, duration) == elapsed > duration * 1000

Min(a, b) == IF a < b THEN a ELSE b

CalculateEnvelope_NoRelease(elapsed, attack, release, duration) ==
    IF elapsed < attack * 1000
    THEN (elapsed * 1000) \div (attack * 1000)
    ELSE IF elapsed < duration * 1000
    THEN 1000
    ELSE 0

\* elapsed in microseconds, the others in milliseconds; result in 1/1000
CalculateEnvelope(elapsed, attack, release, duration) ==
    IF elapsed < attack * 1000
    THEN (elapsed * 1000) \div (attack * 1000)
    ELSE IF elapsed < (duration - release) * 1000
    THEN 1000
    ELSE LET release_elapsed == elapsed - (duration - release) * 1000
         IN  1000 - Min(release_elapsed \div release, 1000)

\* (phase * 2.0 * PI).sin() for a phase in 1/1000 cycle, in 1/1000:
\* the parabolic approximation 16 x (1/2 - x) of sin(2 pi x) on each half cycle
Sin2Pi(phase) ==
    LET x == phase % 1000
    IN  IF x < 500 THEN (16 * x * (500 - x)) \div 1000
        ELSE -((16 * (x - 500) * (1000 - x)) \div 1000)

\* the harmonics loop: sum of sin(phase * (h + 2)) * harmonic_amp * amplitude
RECURSIVE HarmonicSum(_, _, _, _)
HarmonicSum(harmonics, harmonic_index, phase, amplitude) ==
    IF harmonic_index >= Len(harmonics) THEN 0
    ELSE LET harmonic_phase == phase * (harmonic_index + 2)
             weighted == Quot(Sin2Pi(harmonic_phase) * harmonics[harmonic_index + 1], 1000)
         IN  Quot(weighted * amplitude, 1000000)
             + HarmonicSum(harmonics, harmonic_index + 1, phase, amplitude)

\* one note's contribution to the current sample, in 1/1000
Signal(note, envelope) ==
    LET raw == Quot(Sin2Pi(note.phase) * note.amplitude, 1000000)
               + HarmonicSum(note.harmonics, 0, note.phase, note.amplitude)
        gain == (envelope * note.amplitude) \div 1000000
    IN  Quot(raw * gain, 1000)

AdvancePhase_NoWrap(phase, frequency, rate) == phase + (frequency * 10) \div rate

\* note.phase += note.frequency / sample_rate, wrapped once
AdvancePhase(phase, frequency, rate) ==
    LET p == phase + (frequency * 10) \div rate
    IN  IF p > 1000 THEN p - 1000 ELSE p

Damp_Twice(amplitude, damping) == (((amplitude * damping) \div 1000) * damping) \div 1000

\* note.amplitude *= string_damping
Damp(amplitude, damping) == (amplitude * damping) \div 1000

\* Vec::remove(i), 1-based
RemoveAt(notes, i) == SubSeq(notes, 1, i - 1) \o SubSeq(notes, i + 1, Len(notes))

\* x - (x * x * x) / 3.0 for 0 <= x <= 1, both in 1/1000, the exact value
\* truncated towards zero
Cubic(x) == x - ((x * x * x + 2999999) \div 3000000)

SoftClip_HardClip(x) ==
    IF x > 1000 THEN 1000 ELSE IF x < -1000 THEN -1000 ELSE x

\* x and the result in 1/1000
SoftClip(x) ==
    IF x > 1000 THEN 2000 \div 3
    ELSE IF x < -1000 THEN -(2000 \div 3)
    ELSE IF x >= 0 THEN Cubic(x) ELSE -Cubic(-x)

RECURSIVE NoteLoop_DampsFrequency(_, _, _, _, _)
NoteLoop_DampsFrequency(acc, i, now, rate, damping) ==
    IF i > Len(acc.notes) THEN acc
    ELSE LET note == acc.notes[i]
             elapsed == Elapsed(now, note.start_time, rate)
         IN  IF Expired(elapsed, note.duration)
             THEN NoteLoop_DampsFrequency(
                      [acc EXCEPT !.notes = RemoveAt(acc.notes, i),
                                  !.removed = Append(@, note.string_index)],
                      i, now, rate, damping)
             ELSE LET envelope == CalculateEnvelope(elapsed, note.attack_time,
                                                    note.release_time, note.duration)
                      updated == [note EXCEPT
                                    !.phase = AdvancePhase(note.phase, note.frequency, rate),
                                    !.frequency = Damp(note.frequency, damping)]
                  IN  NoteLoop_DampsFrequency(
                          [acc EXCEPT !.notes[i] = updated,
                                      !.output = @ + Signal(note, envelope),
                                      !.visited = Append(@, note.string_index),
                                      !.contrib = Append(@, Signal(note, envelope))],
                          i + 1, now, rate, damping)

RECURSIVE NoteLoop_SkipAfterRemove(_, _, _, _, _)
NoteLoop_SkipAfterRemove(acc, i, now, rate, damping) ==
    IF i > Len(acc.notes) THEN acc
    ELSE LET note == acc.notes[i]
             elapsed == Elapsed(now, note.start_time, rate)
         IN  IF Expired(elapsed, note.duration)
             THEN NoteLoop_SkipAfterRemove(
                      [acc EXCEPT !.notes = RemoveAt(acc.notes, i),
                                  !.removed = Append(@, note.string_index)],
                      i + 1, now, rate, damping)
             ELSE LET envelope == CalculateEnvelope(elapsed, note.attack_time,
                                                    note.release_time, note.duration)
                      updated == [note EXCEPT
                                    !.phase = AdvancePhase(note.phase, note.frequency, rate),
                                    !.amplitude = Damp(note.amplitude, damping)]
                  IN  NoteLoop_SkipAfterRemove(
                          [acc EXCEPT !.notes[i] = updated,
                                      !.output = @ + Signal(note, envelope),
                                      !.visited = Append(@, note.string_index),
                                      !.contrib = Append(@, Signal(note, envelope))],
                          i + 1, now, rate, damping)

\* the while loop over active_notes for one sample, from 1-based index i on;
\* acc carries the notes, the running output, the strings visited/removed and
\* the signal each visited note added to output
RECURSIVE NoteLoop(_, _, _, _, _)
NoteLoop(acc, i, now, rate, damping) ==
    IF i > Len(acc.notes) THEN acc
    ELSE LET note == acc.notes[i]
             elapsed == Elapsed(now, note.start_time, rate)
         IN  IF Expired(elapsed, note.duration)
             THEN NoteLoop([acc EXCEPT !.notes = RemoveAt(acc.notes, i),
                                       !.removed = Append(@, note.string_index)],
                           i, now, rate, damping)
             ELSE LET envelope == CalculateEnvelope(elapsed, note.attack_time,
                                                    note.release_time, note.duration)
                      updated == [note EXCEPT
                                    !.phase = AdvancePhase(note.phase, note.frequency, rate),
                                    !.amplitude = Damp(note.amplitude, damping)]
                  IN  NoteLoop([acc EXCEPT !.notes[i] = updated,
                                           !.output = @ + Signal(note, envelope),
                                           !.visited = Append(@, note.string_index),
                                           !.contrib = Append(@, Signal(note, envelope))],
                               i + 1, now, rate, damping)

ProcessSample_TimePerNote(st, rate, damping) ==
    LET acc == NoteLoop([notes |-> st.notes, output |-> 0,
                         visited |-> << >>, removed |-> << >>, contrib |-> << >>],
                        1, st.now, rate, damping)
    IN  [notes |-> acc.notes,
         now |-> st.now + Len(acc.visited),
         samples |-> Append(st.samples,
                            [time |-> st.now,
                             mix |-> Quot(acc.output * 3, 10),
                             out |-> SoftClip(Quot(acc.output * 3, 10)),
                             visited |-> acc.visited,
                             contrib |-> acc.contrib,
                             removed |-> acc.removed])]

\* one iteration of the loop over output_buffer; st = [notes, now, samples];
\* mix is output * 0.3, out the sample written
ProcessSample(st, rate, damping) ==
    LET acc == NoteLoop([notes |-> st.notes, output |-> 0,
                         visited |-> << >>, removed |-> << >>, contrib |-> << >>],
                        1, st.now, rate, damping)
    IN  [notes |-> acc.notes,
         now |-> st.now + 1,
         samples |-> Append(st.samples,
                            [time |-> st.now,
                             mix |-> Quot(acc.output * 3, 10),
                             out |-> SoftClip(Quot(acc.output * 3, 10)),
                             visited |-> acc.visited,
                             contrib |-> acc.contrib,
                             removed |-> acc.removed])]

RECURSIVE ProcessBuffer(_, _, _, _)
ProcessBuffer(st, n, rate, damping) ==
    IF n = 0 THEN st
    ELSE ProcessBuffer(ProcessSample(st, rate, damping), n - 1, rate, damping)

ProcessCall(n) ==
    /\ LET st == ProcessBuffer([notes |-> active_notes, now |-> current_time,
                                samples |-> << >>],
                               n, sample_rate, string_damping)
       IN  /\ active_notes' = st.notes
           /\ current_time' = st.now
           /\ last' = [NoCall EXCEPT !.op = "process", !.value = n,
                                     !.samples = st.samples]
    /\ UNCHANGED <<sample_rate, pluck_strength, string_damping, silenced, host, calls>>

\* process, called while the run is short of MaxTime sample periods
Process(n) ==
    /\ current_time + n <= MaxTime
    /\ ProcessCall(n)

\* a trigger or parameter call
Control ==
    \/ \E in \in host.notes : PlayNote(in[1], in[2])
    \/ \E fret_positions \in host.chords : PlayChord(fret_positions)
    \/ StopAll
    \/ \E strength \in host.plucks : SetPluckStrength(strength)
    \/ \E damping \in host.dampings : SetStringDamping(damping)

Next ==
    \/ Control
    \/ \E n \in BufferLengths : Process(n)

Spec == Init /\ [][Next]_vars

(***************************************************************************)
(* The host keeps rendering: process is called again and again, at least   *)
(* for as long as a note sounds, and no trigger or parameter call comes    *)
(* after MaxTime sample periods.                                           *)
(***************************************************************************)
Render(n) ==
    /\ current_time + n <= MaxTime \/ active_notes # << >>
    /\ ProcessCall(n)

LiveNext ==
    \/ current_time <= MaxTime /\ Control
    \/ \E n \in BufferLengths : Render(n)

\* the steps that advance current_time: exactly the process calls on a
\* non-empty buffer made by Render, and enabled exactly when those are
RenderStep ==
    /\ current_time + 1 <= MaxTime \/ active_notes # << >>
    /\ current_time' \in {current_time + n : n \in BufferLengths \ {0}}

LiveSpec ==
    /\ Init
    /\ [][LiveNext]_vars
    /\ WF_current_time(RenderStep)

(***************************************************************************)
(* Properties.                                                             *)
(***************************************************************************)
NotesOn(notes, s) == {i \in 1..Len(notes) : notes[i].string_index = s}

NoteSet(notes) == {notes[i] : i \in 1..Len(notes)}

OtherStrings(notes, s) == {n \in NoteSet(notes) : n.string_index # s}

\* C1: in every reachable state the active-note collection holds at most one
\* note per string index.
C1_OneNotePerString ==
    \A i, j \in 1..Len(active_notes) :
        i # j => active_notes[i].string_index # active_notes[j].string_index

\* a play_note on a sounding string, with another string sounding, after a render
C1_Witness ==
    /\ last.op = "play_note"
    /\ last.removed = 1
    /\ Len(active_notes) >= 2
    /\ current_time > 0

\* C2: play_note(s, f) with s in 0..5 and f >= 0 leaves exactly one note on
\* string s, with the frequency of fret f, amplitude equal to the pluck strength,
\* phase 0 and start_time equal to the engine time, and leaves every note on
\* another string exactly as it was.
C2_PlayNoteMerges ==
    [][(last'.op = "play_note" /\ last'.string_index \in 0..5 /\ last'.fret >= 0) =>
        LET s == last'.string_index
        IN  /\ Cardinality(NotesOn(active_notes', s)) = 1
            /\ \A i \in NotesOn(active_notes', s) :
                  /\ active_notes'[i].frequency = CalculateFrequency(s, last'.fret)
                  /\ active_notes'[i].amplitude = pluck_strength
                  /\ active_notes'[i].phase = 0
                  /\ active_notes'[i].start_time = current_time
            /\ OtherStrings(active_notes', s) = OtherStrings(active_notes, s)
            /\ Len(active_notes') = Cardinality(OtherStrings(active_notes, s)) + 1]_vars

\* play_note(0, 7) replaced the note on string 0 while a note on another string,
\* already rendered for a sample, kept sounding
C2_Witness ==
    /\ last.op = "play_note"
    /\ last.string_index = 0
    /\ last.fret = 7
    /\ last.removed = 1
    /\ \E i \in 1..Len(active_notes) :
          /\ active_notes[i].string_index # 0
          /\ active_notes[i].start_time < current_time
          /\ active_notes[i].amplitude < pluck_strength
    /\ \E i \in 1..Len(active_notes) :
          /\ active_notes[i].string_index = 0
          /\ active_notes[i].frequency = 12347

ChordStrings(fret_positions) ==
    {i - 1 : i \in {k \in 1..Len(fret_positions) : fret_positions[k] >= 0}}

\* C3: play_chord(P) leaves exactly one note for each index i with P[i] >= 0
\* (string i, fret P[i], start_time the engine time, amplitude the pluck
\* strength, phase 0) and no other note, whatever the collection held before.
C3_PlayChordReplaces ==
    [][last'.op = "play_chord" =>
        LET P == last'.frets
        IN  /\ StringsOf(active_notes') = ChordStrings(P)
            /\ Len(active_notes') = Cardinality(ChordStrings(P))
            /\ \A i \in 1..Len(active_notes') :
                  LET note == active_notes'[i]
                  IN  /\ note.frequency =
                             CalculateFrequency(note.string_index, P[note.string_index + 1])
                      /\ note.start_time = current_time
                      /\ note.amplitude = pluck_strength
                      /\ note.phase = 0]_vars

\* play_chord([-1, 7]) after a render, on a collection that held six notes
C3_Witness ==
    /\ last.op = "play_chord"
    /\ last.frets = <<-1, 7>>
    /\ last.removed = 6
    /\ current_time > 0
    /\ Len(active_notes) = 1

AllZero(samples) == \A k \in 1..Len(samples) : samples[k].out = 0

\* C4: after stop_all and until the next trigger the collection is empty and
\* every process call writes 0 to every position of its buffer.
C4_StopSilences ==
    silenced >= 0 =>
        /\ active_notes = << >>
        /\ last.op = "process" => AllZero(last.samples)

\* a two-sample buffer rendered after stop_all cleared sounding notes
C4_Witness ==
    /\ silenced >= 1
    /\ last.op = "process"
    /\ Len(last.samples) = 2
    /\ current_time > 2

\* C5: process on a buffer of N samples advances current_time by exactly N
\* sample periods, and no other operation changes current_time.
C5_TimeAdvance ==
    [][IF last'.op = "process"
       THEN current_time' = current_time + last'.value
       ELSE current_time' = current_time]_vars

\* a two-sample render during which a note was removed and another kept sounding
C5_Witness ==
    /\ last.op = "process"
    /\ last.value = 2
    /\ \E k \in 1..2 : last.samples[k].removed # << >>
    /\ active_notes # << >>

InSeq(x, seq) == \E k \in 1..Len(seq) : seq[k] = x

\* seconds between start and now exceed 3.0
PastDuration(now, start, rate) == now - start > 3 * rate

\* C6: in each sample of a process call, a note of the collection contributes
\* exactly when its elapsed time at that sample does not exceed 3.0 s, and it
\* is removed at the first sample where its elapsed time exceeds 3.0 s.
C6_ContributesUntilDuration ==
    [][last'.op = "process" =>
        \A k \in 1..Len(last'.samples) :
            LET t == current_time + k - 1
                sample == last'.samples[k]
            IN  /\ sample.time = t
                /\ \A i \in 1..Len(active_notes) :
                      LET note == active_notes[i]
                          past == PastDuration(t, note.start_time, sample_rate)
                          first == past /\ (k = 1 \/
                                      ~PastDuration(t - 1, note.start_time, sample_rate))
                      IN  /\ InSeq(note.string_index, sample.visited) <=> ~past
                          /\ InSeq(note.string_index, sample.removed) <=> first
                /\ \A s \in NoteSet(<<sample.visited, sample.removed>>) :
                      \A j \in 1..Len(s) : HasString(active_notes, s[j])]_vars

\* a render in which a note contributed at elapsed = duration and was removed at
\* the next sample, where a younger note still contributed
C6_Witness ==
    /\ last.op = "process"
    /\ Len(last.samples) = 2
    /\ \E s \in 0..5 :
          /\ InSeq(s, last.samples[1].visited)
          /\ InSeq(s, last.samples[2].removed)
    /\ last.samples[2].visited # << >>

StartedAt(t) == \E i \in 1..Len(active_notes) : active_notes[i].start_time = t

\* every engine time at which a run of LiveSpec can trigger a note
StartTimes == 0..MaxTime

\* C7: while the host keeps rendering, a note triggered at time t leaves the
\* collection; no note is present once a sample at a time greater than
\* t + 3.0 s has been processed; the collection ends up empty for good and a
\* render of the empty collection writes zeros.
C7_NotesLeave ==
    /\ \A t \in StartTimes : StartedAt(t) ~> ~StartedAt(t)
    /\ [](\A i \in 1..Len(active_notes) :
             ~PastDuration(current_time - 1, active_notes[i].start_time, sample_rate))
    /\ <>[](active_notes = << >>)
    /\ [][(active_notes = << >> /\ last'.op = "process") => AllZero(last'.samples)]_vars

\* the render that removed the last sounding notes and wrote a zero sample
C7_Witness ==
    /\ last.op = "process"
    /\ active_notes = << >>
    /\ last.samples # << >>
    /\ last.samples[Len(last.samples)].removed # << >>
    /\ last.samples[Len(last.samples)].out = 0
    /\ silenced = -1

\* C8: pluck strength stays in [0,1] and string damping in [0.9,0.999]; they
\* start at 0.8 and 0.995; set_pluck_strength(v) and set_string_damping(v)
\* store v clamped to the range and change nothing else.
C8_ParametersClamped ==
    /\ [](/\ 0 <= pluck_strength /\ pluck_strength <= 1000000
          /\ 900 <= string_damping /\ string_damping <= 999
          /\ (calls = 0 => pluck_strength = 800000 /\ string_damping = 995))
    /\ [][/\ last'.op = "set_pluck_strength" =>
               /\ pluck_strength' = (IF last'.value < 0 THEN 0
                                     ELSE IF last'.value > 1000000 THEN 1000000
                                     ELSE last'.value)
               /\ UNCHANGED <<sample_rate, current_time, active_notes, string_damping>>
          /\ last'.op = "set_string_damping" =>
               /\ string_damping' = (IF last'.value < 900 THEN 900
                                     ELSE IF last'.value > 999 THEN 999
                                     ELSE last'.value)
               /\ UNCHANGED <<sample_rate, current_time, active_notes, pluck_strength>>
          /\ last'.op \notin {"set_pluck_strength", "set_string_damping"} =>
               UNCHANGED <<pluck_strength, string_damping>>]_vars

\* set_pluck_strength above the range, stored as 1.0 while a note sounds
C8_Witness ==
    /\ last.op = "set_pluck_strength"
    /\ last.value > 1000000
    /\ pluck_strength = 1000000
    /\ active_notes # << >>

\* C9: set_pluck_strength leaves the active notes as they are, and a note
\* created by a later play_note or play_chord starts with the pluck strength
\* then stored, which only set_pluck_strength changes.
C9_PluckAffectsLaterNotes ==
    [][/\ last'.op = "set_pluck_strength" => active_notes' = active_notes
       /\ last'.op # "set_pluck_strength" => pluck_strength' = pluck_strength
       /\ last'.op = "play_note" =>
            \A i \in NotesOn(active_notes', last'.string_index) :
                active_notes'[i].amplitude = pluck_strength
       /\ last'.op = "play_chord" =>
            \A i \in 1..Len(active_notes') :
                active_notes'[i].amplitude = pluck_strength]_vars

\* a note triggered at the default strength and rendered keeps its amplitude
\* while a note triggered after set_pluck_strength(0.5) starts at 0.5
C9_Witness ==
    /\ last.op = "play_note"
    /\ pluck_strength = 500000
    /\ \E i, j \in 1..Len(active_notes) :
          /\ active_notes[i].start_time < current_time
          /\ active_notes[i].amplitude = (800000 * 995) \div 1000
          /\ active_notes[j].string_index = last.string_index
          /\ active_notes[j].amplitude = 500000

\* amplitude a damped k times by d
RECURSIVE DampTimes(_, _, _)
DampTimes(a, d, k) == IF k = 0 THEN a ELSE DampTimes((a * d) \div 1000, d, k - 1)

\* C10: a process call of k samples multiplies the amplitude of every note it
\* keeps by the damping factor k times, using the factor stored when it is
\* called; set_string_damping changes no note.
C10_DampedOncePerSample ==
    [][/\ last'.op = "process" =>
            \A i \in 1..Len(active_notes') :
                \E j \in 1..Len(active_notes) :
                    /\ active_notes[j].string_index = active_notes'[i].string_index
                    /\ active_notes'[i].amplitude =
                           DampTimes(active_notes[j].amplitude, string_damping,
                                     last'.value)
       /\ last'.op = "set_string_damping" => active_notes' = active_notes]_vars

\* a note rendered for one sample at damping 0.995 and, after
\* set_string_damping(0.85) stored 0.9, for two samples at 0.9
C10_Witness ==
    /\ last.op = "process"
    /\ last.value = 2
    /\ string_damping = 900
    /\ \E i \in 1..Len(active_notes) :
          /\ current_time - active_notes[i].start_time = 3
          /\ active_notes[i].amplitude = DampTimes(DampTimes(800000, 995, 1), 900, 2)

RECURSIVE SumSeq(_)
SumSeq(seq) == IF seq = << >> THEN 0 ELSE Head(seq) + SumSeq(Tail(seq))

\* y is x - x^3 / 3 truncated towards zero, for 0 <= x <= 1000 in 1/1000
IsCubicOf(y, x) ==
    LET d == x - y
    IN  3000000 * (d - 1) < x * x * x /\ x * x * x <= 3000000 * d

(***************************************************************************)
(* C11: every sample process writes lies in [-2/3, 2/3]: it is soft_clip   *)
(* of 0.3 times the summed note contributions, where soft_clip(x) is 2/3   *)
(* for x > 1, -2/3 for x < -1 and x - x^3/3 otherwise.                     *)
(***************************************************************************)
C11_SamplesBounded ==
    \A k \in 1..Len(last.samples) :
        LET s == last.samples[k]
        IN  /\ s.mix = Quot(SumSeq(s.contrib) * 3, 10)
            /\ -(2000 \div 3) <= s.out /\ s.out <= 2000 \div 3
            /\ s.mix > 1000 => s.out = 2000 \div 3
            /\ s.mix < -1000 => s.out = -(2000 \div 3)
            /\ (0 <= s.mix /\ s.mix <= 1000) => IsCubicOf(s.out, s.mix)
            /\ (-1000 <= s.mix /\ s.mix < 0) => IsCubicOf(-s.out, -s.mix)

\* a buffer with one sample below the clipping threshold and one inside it
C11_Witness ==
    /\ last.op = "process"
    /\ \E k \in 1..Len(last.samples) :
          /\ Len(last.samples[k].contrib) = NumStrings
          /\ last.samples[k].mix < -1000
          /\ last.samples[k].out = -(2000 \div 3)
    /\ \E k \in 1..Len(last.samples) :
          /\ last.samples[k].mix # 0
          /\ last.samples[k].mix \in -1000..1000

(***************************************************************************)
(* C12: an invalid string index never corrupts the collection: whatever    *)
(* was called, play_note with an index outside [0,5] included, every note  *)
(* in active_notes has a string index in [0,5].                            *)
(***************************************************************************)
C12_StringIndexInRange ==
    \A i \in 1..Len(active_notes) :
        active_notes[i].string_index \in 0..(NumStrings - 1)

(***************************************************************************)
(* C13: play_note with fret < 0 is a no-op: it leaves active_notes as it   *)
(* was, whatever the string index.                                         *)
(***************************************************************************)
C13_NegativeFretNoOp ==
    [][(last'.op = "play_note" /\ last'.fret < 0) => active_notes' = active_notes]_vars

\* play_note(string_index, fret) asked for a note no string and fret give
DegenerateCall(call) ==
    call.op = "play_note"
    /\ (call.fret < 0 \/ call.string_index \notin 0..(NumStrings - 1))

SilentStrings(notes) ==
    {notes[i].string_index : i \in {j \in 1..Len(notes) : notes[j].frequency = 0}}

Sounding(notes) == SelectSeq(notes, LAMBDA n : n.frequency # 0)

(***************************************************************************)
(* C14: a note play_note creates from a negative fret or an out-of-range   *)
(* string index has frequency 0 and phase 0; through every rendered sample *)
(* its phase stays 0 and it adds exactly 0 to the output, so each sample   *)
(* equals the one the other notes alone produce.                           *)
(***************************************************************************)
C14_DegenerateSilent ==
    [][/\ DegenerateCall(last') =>
              /\ active_notes'[Len(active_notes')].frequency = 0
              /\ active_notes'[Len(active_notes')].phase = 0
       /\ last'.op = "process" =>
              LET alone == ProcessBuffer([notes |-> Sounding(active_notes),
                                          now |-> current_time, samples |-> << >>],
                                         last'.value, sample_rate, string_damping)
              IN  /\ \A i \in 1..Len(active_notes') :
                         active_notes'[i].frequency = 0 => active_notes'[i].phase = 0
                  /\ \A k \in 1..Len(last'.samples) :
                         /\ \A j \in 1..Len(last'.samples[k].visited) :
                                last'.samples[k].visited[j] \in SilentStrings(active_notes)
                                    => last'.samples[k].contrib[j] = 0
                         /\ last'.samples[k].out = alone.samples[k].out
                         /\ last'.samples[k].mix = alone.samples[k].mix]_vars

\* a rendered sample that is not silent although a degenerate note was
\* visited along with a sounding one
C14_Witness ==
    /\ last.op = "process"
    /\ \E k \in 1..Len(last.samples) :
          /\ last.samples[k].out # 0
          /\ \E j \in 1..Len(last.samples[k].visited) :
                last.samples[k].visited[j] \in SilentStrings(active_notes)
          /\ \E j \in 1..Len(last.samples[k].visited) :
                last.samples[k].visited[j] \notin SilentStrings(active_notes)

(***************************************************************************)
(* Hosts that construct the engine with a sample rate above twice the      *)
(* frequency of the notes they trigger: at 440 Hz the open A string        *)
(* (110.00 Hz) advances a quarter of a cycle per sample.                   *)
(***************************************************************************)
PhaseHosts ==
    { [rate |-> 440, notes |-> {<<1, 0>>, <<0, 0>>}, chords |-> {<<-1, 0>>},
       plucks |-> {500000}, dampings |-> {950}, stop |-> TRUE] }

PhaseInit ==
    /\ host \in PhaseHosts
    /\ sample_rate = host.rate
    /\ current_time = 0
    /\ active_notes = << >>
    /\ pluck_strength = DefaultPluck
    /\ string_damping = DefaultDamping
    /\ last = NoCall
    /\ silenced = -1
    /\ calls = 0

PhaseSpec == PhaseInit /\ [][Next]_vars

\* frequency (1/100 Hz) below sample_rate / 2
BelowNyquist(note) == note.frequency * 2 < sample_rate * 100

(***************************************************************************)
(* C15 as stated: every active note with frequency below sample_rate / 2   *)
(* has its phase in [0,1), the single wrap bringing it back below 1.       *)
(***************************************************************************)
C15_PhaseBelowOne ==
    \A i \in 1..Len(active_notes) :
        BelowNyquist(active_notes[i]) =>
            0 <= active_notes[i].phase /\ active_notes[i].phase < 1000

(***************************************************************************)
(* C15 amended: every active note with frequency below sample_rate / 2     *)
(* has its phase in [0,1]; the wrap subtracts 1.0 only when the phase      *)
(* exceeds 1.0, so a phase of exactly 1.0 is kept.                         *)
(***************************************************************************)
C15_PhaseAtMostOne ==
    \A i \in 1..Len(active_notes) :
        BelowNyquist(active_notes[i]) =>
            0 <= active_notes[i].phase /\ active_notes[i].phase <= 1000

\* a note below the Nyquist frequency rendered until its phase wrapped
C15_Witness ==
    /\ last.op = "process"
    /\ \E i \in 1..Len(active_notes) :
          /\ BelowNyquist(active_notes[i])
          /\ active_notes[i].frequency > 0
          /\ current_time - active_notes[i].start_time = 5
          /\ active_notes[i].phase = 250

(***************************************************************************)
(* calculate_envelope on its own: the elapsed times (microseconds) of a    *)
(* note's life it is applied to, every microsecond of the attack and the   *)
(* segment boundaries among them, with the attack, release and duration    *)
(* every note carries.                                                     *)
(***************************************************************************)
EnvInputs ==
    (0..(AttackMs * 1000 + 100))
    \cup {k * 50000 : k \in 1..((DurationMs * 1000) \div 50000)}
    \cup {(DurationMs - ReleaseMs) * 1000 + k : k \in {-1, 0, 1, 2 * ReleaseMs - 1}}
    \cup {DurationMs * 1000 - 1, DurationMs * 1000}

EnvInit ==
    /\ host \in Hosts
    /\ sample_rate = host.rate
    /\ current_time = 0
    /\ active_notes = << >>
    /\ pluck_strength = DefaultPluck
    /\ string_damping = DefaultDamping
    /\ \E elapsed \in EnvInputs : last = [NoCall EXCEPT !.op = "elapsed", !.value = elapsed]
    /\ silenced = -1
    /\ calls = 0

\* let envelope = self.calculate_envelope(elapsed, attack_time, release_time, duration)
ApplyEnvelope ==
    /\ last.op = "elapsed"
    /\ last' = [last EXCEPT !.op = "calculate_envelope",
                            !.samples = <<[envelope |->
                                CalculateEnvelope(last.value, AttackMs, ReleaseMs, DurationMs)]>>]
    /\ UNCHANGED <<sample_rate, current_time, active_notes, pluck_strength,
                   string_damping, silenced, host, calls>>

EnvNext == ApplyEnvelope

EnvSpec == EnvInit /\ [][EnvNext]_vars

(***************************************************************************)
(* C16: for elapsed e in [0, duration], calculate_envelope is e/a when     *)
(* e < a, 1 when a <= e < d - r, and 1 - min(1, (e - (d - r))/r)           *)
(* otherwise; it is 0 at e = 0, 1 at e = a and at e = d - r, 0 at e = d,   *)
(* and always within [0,1].  (e in microseconds, a, r, d in milliseconds,  *)
(* the envelope in 1/1000, quotients truncated.)                           *)
(***************************************************************************)
C16_EnvelopeShape ==
    last.op = "calculate_envelope" =>
        LET e == last.value
            a == AttackMs * 1000
            r == ReleaseMs * 1000
            d == DurationMs * 1000
            env == last.samples[1].envelope
            fall == 1000 - env
        IN  /\ e < a => env * a <= e * 1000 /\ e * 1000 < (env + 1) * a
            /\ (a <= e /\ e < d - r) => env = 1000
            /\ e >= d - r =>
                   \/ fall = 1000 /\ e - (d - r) >= r
                   \/ fall < 1000 /\ fall * r <= (e - (d - r)) * 1000
                                  /\ (e - (d - r)) * 1000 < (fall + 1) * r
            /\ e = 0 => env = 0
            /\ e = a => env = 1000
            /\ e = d - r => env = 1000
            /\ e = d => env = 0
            /\ 0 <= env /\ env <= 1000

\* the envelope half-way down the release segment
C16_Witness ==
    /\ last.op = "calculate_envelope"
    /\ last.value = (DurationMs - ReleaseMs) * 1000 + (ReleaseMs * 1000) \div 2
    /\ last.samples[1].envelope = 500

(***************************************************************************)
(* C17 as stated: whenever process has returned, every note still in       *)
(* active_notes satisfies current_time - start_time <= duration.           *)
(***************************************************************************)
C17_NoNotePastDuration ==
    last.op = "process" =>
        \A i \in 1..Len(active_notes) :
            Elapsed(current_time, active_notes[i].start_time, sample_rate)
                <= active_notes[i].duration * 1000

(***************************************************************************)
(* C17 amended: whenever process has returned, every note still in         *)
(* active_notes had an elapsed time of at most its duration at the last    *)
(* sample rendered, one sample period before current_time.                 *)
(***************************************************************************)
C17_NotPastDurationAtLastSample ==
    last.op = "process" =>
        \A i \in 1..Len(active_notes) :
            Elapsed(current_time - 1, active_notes[i].start_time, sample_rate)
                <= active_notes[i].duration * 1000

\* process returned right after the sample at which a note's elapsed time
\* equalled its duration: the note is kept and current_time has moved on
C17_Witness ==
    /\ last.op = "process"
    /\ last.value > 0
    /\ \E i \in 1..Len(active_notes) :
          /\ Elapsed(current_time - 1, active_notes[i].start_time, sample_rate)
                 = active_notes[i].duration * 1000
          /\ Elapsed(current_time, active_notes[i].start_time, sample_rate)
                 > active_notes[i].duration * 1000

CountIn(seq, x) == Cardinality({j \in 1..Len(seq) : seq[j] = x})

StringsSeq(notes) == [i \in 1..Len(notes) |-> notes[i].string_index]

\* one pass over the notes `before` at engine time now, leaving `after` and
\* recording sample: every note is either removed or visited, exactly once
SamplePass(before, after, sample, now) ==
    /\ Len(sample.visited) + Len(sample.removed) = Len(before)
    /\ Len(sample.contrib) = Len(sample.visited)
    /\ StringsSeq(after) = sample.visited
    /\ \A i \in 1..Len(before) :
          LET n == before[i]
              s == n.string_index
              elapsed == Elapsed(now, n.start_time, sample_rate)
          IN  IF elapsed > n.duration * 1000
              THEN /\ CountIn(sample.removed, s) = 1
                   /\ CountIn(sample.visited, s) = 0
              ELSE /\ CountIn(sample.removed, s) = 0
                   /\ CountIn(sample.visited, s) = 1
                   /\ \A j \in 1..Len(after) :
                          after[j].string_index = s =>
                              /\ after[j].phase
                                     = AdvancePhase(n.phase, n.frequency, sample_rate)
                              /\ after[j].amplitude = Damp(n.amplitude, string_damping)
                              /\ sample.contrib[j]
                                     = Signal(n, CalculateEnvelope(elapsed, n.attack_time,
                                                                   n.release_time, n.duration))

\* the notes before the k-th sample of a process call made in this state
NotesBeforeSample(k) ==
    ProcessBuffer([notes |-> active_notes, now |-> current_time, samples |-> << >>],
                  k - 1, sample_rate, string_damping).notes

(***************************************************************************)
(* C18: each rendered sample visits every note exactly once: a note that   *)
(* is not expired contributes once, has its phase advanced once and its    *)
(* amplitude damped once, and every expired note is removed, however many  *)
(* notes the same pass removes.                                            *)
(***************************************************************************)
C18_EveryNoteOnce ==
    [][last'.op = "process" =>
          /\ NotesBeforeSample(last'.value + 1) = active_notes'
          /\ \A k \in 1..Len(last'.samples) :
                SamplePass(NotesBeforeSample(k), NotesBeforeSample(k + 1),
                           last'.samples[k], current_time + k - 1)]_vars

\* a sample whose pass removed several expired notes ahead of a note it kept
C18_Witness ==
    /\ last.op = "process"
    /\ \E k \in 1..Len(last.samples) :
          /\ Len(last.samples[k].removed) >= 2
          /\ Len(last.samples[k].visited) >= 1
          /\ last.samples[k].out # 0

\* a note without the two fields process writes
Immutable(note) == [note EXCEPT !.amplitude = 0, !.phase = 0]

(***************************************************************************)
(* C19: process changes only the amplitude and phase of the notes it       *)
(* keeps: every note present after a process call was present before with  *)
(* the same frequency, start_time, duration, attack and release times,     *)
(* harmonics and string index; no operation changes sample_rate, and       *)
(* process changes neither pluck_strength nor string_damping.              *)
(***************************************************************************)
C19_RenderFrame ==
    [][/\ sample_rate' = sample_rate
       /\ last'.op = "process" =>
              /\ pluck_strength' = pluck_strength
              /\ string_damping' = string_damping
              /\ Len(active_notes') <= Len(active_notes)
              /\ \A j \in 1..Len(active_notes') :
                     \E i \in 1..Len(active_notes) :
                         Immutable(active_notes[i]) = Immutable(active_notes'[j])]_vars

\* a note that process rendered and kept, its amplitude and phase changed,
\* while the parameters differ from their defaults
C19_Witness ==
    /\ last.op = "process"
    /\ last.value > 0
    /\ string_damping # DefaultDamping
    /\ \E i \in 1..Len(active_notes) :
          /\ active_notes[i].start_time < current_time
          /\ active_notes[i].phase # 0
          /\ active_notes[i].amplitude < DefaultPluck

====
